---------------------------- MODULE Spec2Model ----------------------------
(***************************************************************************)
(* Model of Py2exe-GUI's option store (Core/packaging_task.py,             *)
(* PackagingTask) and interpreter inspector (Utilities/python_env.py,      *)
(* PyEnv).                                                                 *)
(*                                                                         *)
(* Text is modelled at character level: a Python str is a tuple of         *)
(* one-character strings, so that pathlib's normalisation, Path.stem and   *)
(* the `in` substring test are computed rather than assumed.  Paths follow *)
(* the POSIX flavour of pathlib, where as_posix() changes nothing.         *)
(***************************************************************************)
EXTENDS Integers, Sequences, FiniteSets, TLC

VARIABLES
    using_option,   \* PackagingTask.using_option: dict[PyInstOpt, Any]
    emitted,        \* signals emitted by the last on_opt_selected call, in order
    raised,         \* exception the last on_opt_selected call raised, or "none"
    submitted,      \* the (arg_key, arg_value) pair of the last call
    before,         \* using_option as it was when the last call started
    last_ready,     \* payload of the most recent ready_to_pack emission, or "none"
    pc,             \* position of the PyEnv call: "idle", "start" or "done"
    call,           \* the PyEnv call: its operation, arguments and environment
    ret             \* what the PyEnv call returned or raised

vars == <<using_option, emitted, raised, submitted, before, last_ready, pc, call, ret>>

taskVars == <<using_option, emitted, raised, submitted, before, last_ready>>

envVars == <<pc, call, ret>>

(***************************************************************************)
(* Python values.  Every value is a record of the same shape so that       *)
(* values of different Python types can be compared.                       *)
(***************************************************************************)
PyVal(tag, s) == [tag |-> tag, s |-> s]

None == PyVal("None", <<>>)

PyStr(s) == PyVal("str", s)

PyPath(s) == PyVal("Path", s)

PyTrue == PyVal("bool", <<"T">>)

PyFalse == PyVal("bool", <<"F">>)

(***************************************************************************)
(* Character-level string helpers.                                         *)
(***************************************************************************)
RECURSIVE SplitFrom(_, _, _, _)
SplitFrom(s, i, cur, acc) ==
    IF i > Len(s) THEN Append(acc, cur)
    ELSE IF s[i] = "/" THEN SplitFrom(s, i + 1, <<>>, Append(acc, cur))
    ELSE SplitFrom(s, i + 1, Append(cur, s[i]), acc)

\* str.split("/")
Split(s) == SplitFrom(s, 1, <<>>, <<>>)

RECURSIVE JoinFrom(_, _)
JoinFrom(parts, i) ==
    IF i > Len(parts) THEN <<>>
    ELSE IF i = Len(parts) THEN parts[i]
    ELSE parts[i] \o <<"/">> \o JoinFrom(parts, i + 1)

\* "/".join(parts)
Join(parts) == JoinFrom(parts, 1)

\* pat in s
Contains(pat, s) ==
    \E i \in 0..(Len(s) - Len(pat)) : SubSeq(s, i + 1, i + Len(pat)) = pat

\* s.rfind("."): the last index (1-based) of a dot, 0 when there is none
RFindDot(s) ==
    LET dots == {i \in 1..Len(s) : s[i] = "."}
    IN  IF dots = {} THEN 0 ELSE CHOOSE i \in dots : \A j \in dots : j <= i

(***************************************************************************)
(* pathlib (POSIX flavour).                                                *)
(***************************************************************************)
\* the root pathlib keeps: "//" for exactly two leading slashes, "/" otherwise
PathRoot(s) ==
    IF Len(s) = 0 \/ s[1] # "/" THEN <<>>
    ELSE IF Len(s) >= 2 /\ s[2] = "/" /\ (Len(s) = 2 \/ s[3] # "/")
         THEN <<"/", "/">>
    ELSE <<"/">>

\* the components pathlib keeps: empty ones and "." are dropped
PathParts(s) == SelectSeq(Split(s), LAMBDA c : c # <<>> /\ c # <<".">>)

\* str(Path(s))
Path(s) ==
    LET body == PathRoot(s) \o Join(PathParts(s))
    IN  IF body = <<>> THEN <<".">> ELSE body

\* Path.name of a normalised path: its last component, "" when it has none
PathName(p) ==
    LET parts == PathParts(p)
    IN  IF parts = <<>> THEN <<>> ELSE parts[Len(parts)]

\* faulty variant of stem: the suffix is not stripped
stem_keeps_suffix(p) == PathName(p)

\* Path.stem: the name up to its last dot, when that dot is neither the
\* first nor the last character of the name (0 < i < len(name) - 1 for the
\* 0-based i of Python)
stem(p) ==
    LET name == PathName(p)
        i    == RFindDot(name)
    IN  IF 1 < i /\ i < Len(name) THEN SubSeq(name, 1, i - 1) ELSE name


(***************************************************************************)
(* PackagingTask: the option store.                                        *)
(***************************************************************************)
\* members of the PyInstOpt enumeration that the task is exercised with
PyInstOpt == {"script_path", "icon_path", "out_name", "FD"}

\* first items of an option tuple that are no PyInstOpt member
NotPyInstOpt == {"not_an_option"}

\* raw texts a user hands in for a path option
RawPaths ==
    { <<"d", "/", "a", ".", "p", "y">>,
      <<"d", "/", "/", "a", ".", "p", "y">>,
      <<".", "/", "b", ".", "t", ".", "p", "y">>,
      <<".", "r", "c">>,
      <<"x", ".", "p", "y">>,
      <<"d", "/">>,
      <<"i", ".", "i", "c", "o">>,
      <<"/", "j", ".", "i", "c", "o">>,
      <<>> }

\* the script files of the file system, by normalised path
ScriptFiles ==
    { <<"d", "/", "a", ".", "p", "y">>,
      <<"b", ".", "t", ".", "p", "y">>,
      <<".", "r", "c">> }

\* the icon files of the file system, by normalised path
IconFiles ==
    { <<"i", ".", "i", "c", "o">>,
      <<"/", "j", ".", "i", "c", "o">> }

\* FilePathValidator.validate_script(path)
validate_script(p) == p \in ScriptFiles

\* FilePathValidator.validate_icon(path)
validate_icon(p) == p \in IconFiles

\* values handed in for a path option
PathValues == {PyStr(s) : s \in RawPaths}

\* values handed in for any other option
OtherValues ==
    { None, PyTrue, PyStr(<<"n">>),
      PyStr(<<"d", "/", "/", "a", ".", "p", "y">>) }

\* the option tuples a caller submits
Options ==
    ({"script_path", "icon_path"} \X PathValues)
        \cup ((PyInstOpt \ {"script_path", "icon_path"}) \X OtherValues)
        \cup (NotPyInstOpt \X (OtherValues \cup PathValues))

\* one emission of a signal: option_set carries the (key, value) tuple,
\* option_error the key, ready_to_pack a bool
Signal(sig, key, val) == [sig |-> sig, key |-> key, val |-> val]

option_set(option) == Signal("option_set", option[1], option[2])

option_error(key) == Signal("option_error", key, None)

ready_to_pack(b) == Signal("ready_to_pack", "", b)

\* what a call leaves behind: the option map, the signals emitted in order
\* and the exception raised
Outcome(opts, sigs, exc) == [opts |-> opts, sigs |-> sigs, exc |-> exc]

\* faulty variant of script_branch: a rejected script signals readiness
script_branch_ready_on_reject(opts, option) ==
    LET script_path == Path(option[2].s)
    IN  IF validate_script(script_path)
        THEN Outcome([opts EXCEPT !["script_path"] = PyPath(script_path),
                                  !["out_name"] = PyStr(stem(script_path))],
                     << ready_to_pack(PyTrue),
                        option_set(option),
                        option_set(<<"out_name", PyStr(stem(script_path))>>) >>,
                     "none")
        ELSE Outcome(opts,
                     <<ready_to_pack(PyTrue), option_error(option[1])>>,
                     "none")

\* faulty variant of script_branch: a rejected script is stored
script_branch_stores_on_reject(opts, option) ==
    LET script_path == Path(option[2].s)
    IN  IF validate_script(script_path)
        THEN Outcome([opts EXCEPT !["script_path"] = PyPath(script_path),
                                  !["out_name"] = PyStr(stem(script_path))],
                     << ready_to_pack(PyTrue),
                        option_set(option),
                        option_set(<<"out_name", PyStr(stem(script_path))>>) >>,
                     "none")
        ELSE Outcome([opts EXCEPT !["script_path"] = PyPath(script_path)],
                     <<ready_to_pack(PyFalse), option_error(option[1])>>,
                     "none")

\* the script_path branch of on_opt_selected
script_branch(opts, option) ==
    LET script_path == Path(option[2].s)
    IN  IF validate_script(script_path)
        THEN Outcome([opts EXCEPT !["script_path"] = PyPath(script_path),
                                  !["out_name"] = PyStr(stem(script_path))],
                     << ready_to_pack(PyTrue),
                        option_set(option),
                        option_set(<<"out_name", PyStr(stem(script_path))>>) >>,
                     "none")
        ELSE Outcome(opts,
                     <<ready_to_pack(PyFalse), option_error(option[1])>>,
                     "none")

\* faulty variant of icon_branch: the icon verdict is signalled as readiness
icon_branch_signals_readiness(opts, option) ==
    LET icon_path == Path(option[2].s)
    IN  IF validate_icon(icon_path)
        THEN Outcome([opts EXCEPT !["icon_path"] = PyPath(icon_path)],
                     <<ready_to_pack(PyTrue), option_set(option)>>, "none")
        ELSE Outcome(opts,
                     <<ready_to_pack(PyFalse), option_error(option[1])>>,
                     "none")

\* the icon_path branch of on_opt_selected
icon_branch(opts, option) ==
    LET icon_path == Path(option[2].s)
    IN  IF validate_icon(icon_path)
        THEN Outcome([opts EXCEPT !["icon_path"] = PyPath(icon_path)],
                     <<option_set(option)>>, "none")
        ELSE Outcome(opts, <<option_error(option[1])>>, "none")

\* faulty variant of other_branch: texts are normalised as paths
other_branch_normalises(opts, option) ==
    LET kept == IF option[2].tag = "str" THEN PyStr(Path(option[2].s))
                ELSE option[2]
    IN  Outcome([opts EXCEPT ![option[1]] = kept],
                <<option_set(<<option[1], kept>>)>>, "none")

\* the branch of on_opt_selected for the options that need no check
other_branch(opts, option) ==
    Outcome([opts EXCEPT ![option[1]] = option[2]],
            <<option_set(option)>>, "none")

\* faulty variant of handle_option: the isinstance test is left out
handle_option_without_isinstance(opts, option) ==
    IF option[1] = "script_path" THEN script_branch(opts, option)
    ELSE IF option[1] = "icon_path" THEN icon_branch(opts, option)
    ELSE Outcome([k \in DOMAIN opts \cup {option[1]} |->
                     IF k = option[1] THEN option[2] ELSE opts[k]],
                 <<option_set(option)>>, "none")

\* on_opt_selected as a function of the option map and the option tuple
handle_option(opts, option) ==
    IF option[1] = "script_path" THEN script_branch(opts, option)
    ELSE IF option[1] = "icon_path" THEN icon_branch(opts, option)
    ELSE IF option[1] \in PyInstOpt THEN other_branch(opts, option)
    ELSE Outcome(opts, <<>>, "TypeError")

\* the payload of the last ready_to_pack among sigs, or prev when none
LastReady(sigs, prev) ==
    LET idx == {i \in 1..Len(sigs) : sigs[i].sig = "ready_to_pack"}
    IN  IF idx = {} THEN prev
        ELSE LET m == CHOOSE i \in idx : \A j \in idx : j <= i
             IN  IF sigs[m].val = PyTrue THEN "true" ELSE "false"

\* PackagingTask.__init__: every option unset
TaskInit ==
    /\ using_option = [k \in PyInstOpt |-> None]
    /\ emitted = <<>>
    /\ raised = "none"
    /\ submitted = <<"", None>>
    /\ before = [k \in PyInstOpt |-> None]
    /\ last_ready = "none"

\* the slot on_opt_selected, called with one option tuple
on_opt_selected ==
    \E option \in Options :
        LET r == handle_option(using_option, option)
        IN  /\ using_option' = r.opts
            /\ emitted' = r.sigs
            /\ raised' = r.exc
            /\ submitted' = option
            /\ before' = using_option
            /\ last_ready' = LastReady(r.sigs, last_ready)
            /\ UNCHANGED envVars

\* no PyEnv call is under way
EnvIdle ==
    /\ pc = "idle"
    /\ call = [op |-> "none"]
    /\ ret = [kind |-> "none"]

Init == TaskInit /\ EnvIdle

Next == on_opt_selected

Spec == Init /\ [][Next]_vars

(***************************************************************************)
(* Properties of the option store.                                         *)
(***************************************************************************)
\* a call of on_opt_selected has happened
Called == submitted[1] # ""

\* how many times the last call emitted signal sig for option key
Count(sig, key) ==
    Cardinality({i \in 1..Len(emitted) :
                    emitted[i].sig = sig /\ emitted[i].key = key})

\* how many times the last call emitted signal sig at all
CountSig(sig) ==
    Cardinality({i \in 1..Len(emitted) : emitted[i].sig = sig})

\* the last call emitted ready_to_pack exactly once, with payload b
OneReadiness(b) ==
    /\ CountSig("ready_to_pack") = 1
    /\ \E i \in 1..Len(emitted) : emitted[i] = ready_to_pack(b)

\* the base name without its extension, spelled out for each script file
\* by the raw text it is submitted as
BaseNameNoExt(raw) ==
    CASE raw = <<"d", "/", "a", ".", "p", "y">> -> <<"a">>
      [] raw = <<"d", "/", "/", "a", ".", "p", "y">> -> <<"a">>
      [] raw = <<".", "/", "b", ".", "t", ".", "p", "y">> -> <<"b", ".", "t">>
      [] raw = <<".", "r", "c">> -> <<".", "r", "c">>
      [] OTHER -> <<"?">>

\* C1: a submission of (script path, value) whose path passes the script
\* validator stores the path under script path, emits exactly one readiness
\* notification with value true, exactly one acceptance for script path and
\* exactly one further acceptance for output name carrying the path's base
\* name without extension, stores that name under output name over any
\* earlier one, and emits no rejection.
C1_ValidScriptAccepted ==
    (Called /\ submitted[1] = "script_path"
            /\ validate_script(Path(submitted[2].s)))
    => /\ using_option["script_path"] = PyPath(Path(submitted[2].s))
       /\ OneReadiness(PyTrue)
       /\ Count("option_set", "script_path") = 1
       /\ \E i \in 1..Len(emitted) : emitted[i] = option_set(submitted)
       /\ Count("option_set", "out_name") = 1
       /\ \E i \in 1..Len(emitted) :
             emitted[i] = option_set(<<"out_name",
                                       PyStr(BaseNameNoExt(submitted[2].s))>>)
       /\ CountSig("option_set") = 2
       /\ using_option["out_name"] = PyStr(BaseNameNoExt(submitted[2].s))
       /\ CountSig("option_error") = 0
       /\ raised = "none"

\* a valid script, submitted in a form pathlib normalises, over an earlier
\* script path and an earlier, different output name
C1_Witness ==
    /\ submitted = <<"script_path", PyStr(<<".", "/", "b", ".", "t", ".", "p", "y">>)>>
    /\ before["script_path"] # None
    /\ before["out_name"] = PyStr(<<"n">>)
    /\ using_option["out_name"] = PyStr(<<"b", ".", "t">>)

\* C2: a submission of (script path, value) whose path fails the script
\* validator leaves every entry of the option map unchanged, emits exactly
\* one readiness notification with value false and exactly one rejection for
\* script path, emits no acceptance and raises no error.
C2_InvalidScriptRejected ==
    (Called /\ submitted[1] = "script_path"
            /\ ~validate_script(Path(submitted[2].s)))
    => /\ using_option = before
       /\ OneReadiness(PyFalse)
       /\ Count("option_error", "script_path") = 1
       /\ CountSig("option_error") = 1
       /\ CountSig("option_set") = 0
       /\ raised = "none"

\* an invalid script submitted after one was accepted
C2_Witness ==
    /\ submitted = <<"script_path", PyStr(<<"x", ".", "p", "y">>)>>
    /\ before["script_path"] # None
    /\ before["out_name"] # None
    /\ using_option = before

\* C3: a submission of (icon path, value) either stores the path under icon
\* path and emits exactly one acceptance for icon path (validator accepts),
\* or emits exactly one rejection for icon path and changes no entry
\* (validator rejects); either way no readiness notification is emitted and
\* no entry other than icon path changes.
C3_IconAcceptedOrRejected ==
    (Called /\ submitted[1] = "icon_path")
    => /\ CountSig("ready_to_pack") = 0
       /\ raised = "none"
       /\ \A k \in PyInstOpt \ {"icon_path"} : using_option[k] = before[k]
       /\ IF validate_icon(Path(submitted[2].s))
          THEN /\ using_option["icon_path"] = PyPath(Path(submitted[2].s))
               /\ emitted = <<option_set(submitted)>>
          ELSE /\ using_option = before
               /\ emitted = <<option_error("icon_path")>>

\* an icon rejected after another was accepted
C3_Witness ==
    /\ submitted = <<"icon_path", PyStr(<<"d", "/">>)>>
    /\ before["icon_path"] = PyPath(<<"/", "j", ".", "i", "c", "o">>)
    /\ using_option["icon_path"] = before["icon_path"]

\* C4: a submission for a recognised option other than script path and icon
\* path stores exactly the submitted value under that option, emits exactly
\* one acceptance carrying the submitted pair, emits no rejection and no
\* readiness notification, and leaves every other entry unchanged.
C4_OtherOptionStoredVerbatim ==
    (Called /\ submitted[1] \in PyInstOpt \ {"script_path", "icon_path"})
    => /\ using_option = [before EXCEPT ![submitted[1]] = submitted[2]]
       /\ emitted = <<option_set(submitted)>>
       /\ raised = "none"

\* a text that pathlib would rewrite, stored as it is over an earlier value
C4_Witness ==
    /\ submitted = <<"out_name", PyStr(<<"d", "/", "/", "a", ".", "p", "y">>)>>
    /\ before["out_name"] = PyStr(<<"a">>)
    /\ using_option["out_name"] = submitted[2]

\* C5: a submission whose identifier is no member of the option enumeration
\* raises a type error, emits nothing and leaves the option map as it was;
\* the key set is exactly the enumeration in every state.
C5_UnknownIdentifierRaises ==
    /\ DOMAIN using_option = PyInstOpt
    /\ (Called /\ submitted[1] \notin PyInstOpt)
       => /\ raised = "TypeError"
          /\ emitted = <<>>
          /\ using_option = before

\* an unknown identifier submitted to a map that already holds values
C5_Witness ==
    /\ submitted[1] = "not_an_option"
    /\ submitted[2] # None
    /\ before["script_path"] # None
    /\ before["FD"] # None
    /\ raised = "TypeError"

\* C10 as stated: once a readiness notification has been emitted, the most
\* recent one is true exactly when the script-path entry holds an accepted
\* path, and false exactly when that entry is unset.
C10_ReadinessMatchesStore ==
    last_ready # "none"
    => (last_ready = "true" <=> using_option["script_path"] # None)

\* C10 as amended: the most recent readiness value is true exactly when the
\* most recent script-path submission passed the validator; a true value
\* implies that the script-path entry holds an accepted path (an unset
\* entry implies false), while a false value may stand beside an entry that
\* still holds the path accepted before.
C10_ReadinessFollowsLastVerdict ==
    /\ last_ready = "true" => using_option["script_path"] # None
    /\ (last_ready # "none" /\ using_option["script_path"] = None)
       => last_ready = "false"
    /\ (Called /\ submitted[1] = "script_path")
       => (last_ready = "true" <=> validate_script(Path(submitted[2].s)))

\* a rejected script submission after an accepted one
C10_Witness ==
    /\ submitted[1] = "script_path"
    /\ last_ready = "false"
    /\ using_option["script_path"] # None

(***************************************************************************)
(* PyEnv: the interpreter inspector.                                       *)
(***************************************************************************)
\* longest path handed to infer_type, in fragments
MaxSegs == 3

\* longest output of the package-list process, in tokens
MaxLen == 5

\* the pieces the inspected paths are made of
Frags ==
    { <<"/">>, <<".">>, <<"3">>, <<"p", "y">>,
      <<"v", "e", "n", "v">>,
      <<"c", "o", "n", "d", "a">>,
      <<"p", "y", "p", "o", "e", "t", "r", "y">> }

RECURSIVE PathsOfSegs(_)
\* the texts made of exactly n fragments
PathsOfSegs(n) ==
    IF n = 0 THEN {<<>>}
    ELSE {f \o s : f \in Frags, s \in PathsOfSegs(n - 1)}

\* the paths handed to infer_type
InferPaths == UNION {PathsOfSegs(n) : n \in 0..MaxSegs}

\* the working directories a call may run in
Cwds == {<<"/", "w">>, <<"/", "h", "/", "v", "e", "n", "v">>}

\* get_sys_python(): the path of the interpreter running the program
SysPython == <<"/", "/", "/", "p", "y">>

\* str(Path(s).absolute()) with the working directory cwd
Absolute(s, cwd) ==
    IF PathRoot(s) # <<>> THEN Path(s) ELSE Path(cwd \o <<"/">> \o s)

\* how the operating system answers the start of a process: it ran (and
\* ended with a return code and a standard output), or it could not be
\* started because the file is missing or may not be executed
Resp(how, rc, out) == [how |-> how, rc |-> rc, out |-> out]

\* a byte of output that is no text in the encoding of the locale
BadByte == "0xff"

\* the output can be decoded as text
Decodable(out) == \A i \in 1..Len(out) : out[i] # BadByte

\* what a function call ends with: a returned value or a raised exception
Return(val) == [kind |-> "return", exc |-> "none", msg |-> "", val |-> val]

Raise(exc, msg) == [kind |-> "raise", exc |-> exc, msg |-> msg, val |-> <<>>]

\* subprocess.run(cmd, capture_output=True, text=True, check=check)
subprocess_run(resp, check) ==
    IF resp.how = "missing" THEN Raise("FileNotFoundError", "")
    ELSE IF resp.how = "noexec" THEN Raise("PermissionError", "")
    ELSE IF ~Decodable(resp.out) THEN Raise("UnicodeDecodeError", "")
    ELSE IF check /\ resp.rc # 0 THEN Raise("CalledProcessError", "")
    ELSE Return([returncode |-> resp.rc, stdout |-> resp.out])

\* PyEnv.get_py_version
get_py_version(resp) ==
    LET result == subprocess_run(resp, FALSE)
    IN  IF result.kind = "return" THEN Return(result.val.stdout)
        ELSE IF result.exc = "CalledProcessError"
             THEN Raise("RuntimeError", "Failed to get Python version")
        ELSE result

(***************************************************************************)
(* json.loads on the output of pip list.  The output is a sequence of      *)
(* tokens: the brackets and the comma of a JSON array, "pip" for the       *)
(* object {"name": "pip", "version": "23.0"}, "x" for text that is no      *)
(* JSON, and BadByte.                                                      *)
(***************************************************************************)
JsonTokens == {"[", "]", ",", "pip", "x", BadByte}

JDict(name, version) ==
    [t |-> "dict", name |-> name, version |-> version, items |-> <<>>]

JList(items) == [t |-> "list", name |-> "", version |-> "", items |-> items]

\* the result of a parsing step: whether it succeeded, the value and the
\* index of the first token not consumed
Parsed(ok, val, next) == [ok |-> ok, val |-> val, next |-> next]

ParseFail == Parsed(FALSE, JList(<<>>), 0)

RECURSIVE ParseValue(_, _), ParseItems(_, _, _)
\* a JSON value starting at token i
ParseValue(s, i) ==
    IF i > Len(s) THEN ParseFail
    ELSE IF s[i] = "pip" THEN Parsed(TRUE, JDict("pip", "23.0"), i + 1)
    ELSE IF s[i] = "["
         THEN IF i + 1 <= Len(s) /\ s[i + 1] = "]"
              THEN Parsed(TRUE, JList(<<>>), i + 2)
              ELSE ParseItems(s, i + 1, <<>>)
    ELSE ParseFail

\* the items of a non-empty JSON array from token i on, after those in acc
ParseItems(s, i, acc) ==
    LET item == ParseValue(s, i)
    IN  IF ~item.ok \/ item.next > Len(s) THEN ParseFail
        ELSE IF s[item.next] = ","
             THEN ParseItems(s, item.next + 1, Append(acc, item.val))
        ELSE IF s[item.next] = "]"
             THEN Parsed(TRUE, JList(Append(acc, item.val)), item.next + 1)
        ELSE ParseFail

\* json.loads(s): the value, or JSONDecodeError
json_loads(s) ==
    LET doc == ParseValue(s, 1)
    IN  IF doc.ok /\ doc.next = Len(s) + 1 THEN Return(doc.val)
        ELSE Raise("JSONDecodeError", "")

\* faulty variant of get_installed_packages: one message for every failure
get_installed_packages_one_handler(resp) ==
    LET result == subprocess_run(resp, FALSE)
    IN  IF result.kind = "raise"
        THEN Raise("RuntimeError", "An error occurred")
        ELSE LET installed_packages == json_loads(result.val.stdout)
             IN  IF installed_packages.kind = "return" THEN installed_packages
                 ELSE Raise("RuntimeError", "An error occurred")

\* PyEnv.get_installed_packages
get_installed_packages(resp) ==
    LET result == subprocess_run(resp, FALSE)
    IN  IF result.kind = "raise"
        THEN IF result.exc = "CalledProcessError"
             THEN Raise("RuntimeError", "Failed to get installed packages")
             ELSE Raise("RuntimeError", "An error occurred")
        ELSE LET installed_packages == json_loads(result.val.stdout)
             IN  IF installed_packages.kind = "return" THEN installed_packages
                 ELSE Raise("RuntimeError", "Failed to parse installed packages")

\* the text patterns of infer_type
venv == <<"v", "e", "n", "v">>

pypoetry == <<"p", "y", "p", "o", "e", "t", "r", "y">>

conda == <<"c", "o", "n", "d", "a">>

\* the loop of infer_type: the type of the first pair whose pattern is in
\* exe_path, PyEnvType.unknown when there is none
FirstMatch(match_pair, exe_path) ==
    LET hits == {i \in 1..Len(match_pair) : Contains(match_pair[i][1], exe_path)}
    IN  IF hits = {} THEN "unknown"
        ELSE match_pair[CHOOSE i \in hits : \A j \in hits : i <= j][2]

\* faulty variant of infer_type: the conda rule comes first
infer_type_conda_first(executable_path, cwd) ==
    LET exe_path == Absolute(executable_path, cwd)
        match_pair == << <<conda, "conda">>,
                         <<venv, "venv">>,
                         <<pypoetry, "poetry">>,
                         <<Absolute(SysPython, cwd), "system">> >>
    IN  FirstMatch(match_pair, exe_path)

\* faulty variant of infer_type: the system rule tests equality
infer_type_exact_system(executable_path, cwd) ==
    LET exe_path == Absolute(executable_path, cwd)
        match_pair == << <<venv, "venv">>,
                         <<pypoetry, "poetry">>,
                         <<conda, "conda">> >>
        found == FirstMatch(match_pair, exe_path)
    IN  IF found # "unknown" THEN found
        ELSE IF exe_path = Absolute(SysPython, cwd) THEN "system"
        ELSE "unknown"

\* PyEnv.infer_type, run in the working directory cwd
infer_type(executable_path, cwd) ==
    LET exe_path == Absolute(executable_path, cwd)
        match_pair == << <<venv, "venv">>,
                         <<pypoetry, "poetry">>,
                         <<conda, "conda">>,
                         <<Absolute(SysPython, cwd), "system">> >>
    IN  FirstMatch(match_pair, exe_path)

\* PyEnv.__init__: the record built, or the exception that ends it
PyEnv_init(executable_path, type_, cwd, ver, pip) ==
    LET exe_path == Absolute(executable_path, cwd)
        pyversion == get_py_version(ver)
        installed_packages == get_installed_packages(pip)
    IN  IF pyversion.kind = "raise" THEN pyversion
        ELSE IF installed_packages.kind = "raise" THEN installed_packages
        ELSE Return([exe_path |-> exe_path,
                     pyversion |-> pyversion.val,
                     installed_packages |-> installed_packages.val,
                     type |-> IF type_ = "None" THEN infer_type(exe_path, cwd)
                              ELSE type_])

(***************************************************************************)
(* The calls of PyEnv that are checked, each with its arguments and with   *)
(* the answers of the operating system to the processes it starts.         *)
(***************************************************************************)
Call(op, path, cwd, type_, ver, pip) ==
    [op |-> op, path |-> path, cwd |-> cwd, type_ |-> type_,
     ver |-> ver, pip |-> pip]

NoResp == Resp("none", 0, <<>>)

\* the answers to the version process
VerResps ==
    { Resp("missing", 0, <<>>),
      Resp("noexec", 0, <<>>),
      Resp("ran", 0, <<"3", ".", "1", "1">>),
      Resp("ran", 0, <<BadByte>>),
      Resp("ran", 1, <<>>) }

\* the outputs of the package-list process
Docs == UNION {[1..n -> JsonTokens] : n \in 0..MaxLen}

\* the answers to the package-list process
PipResps ==
    { Resp("missing", 0, <<>>), Resp("noexec", 0, <<>>) }
        \cup {Resp("ran", rc, out) : rc \in {0, 1}, out \in Docs}

\* the answers to the package-list process that constructions are run with
CtorPipResps ==
    { Resp("missing", 0, <<>>),
      Resp("ran", 0, <<"[", "pip", "]">>),
      Resp("ran", 0, <<"[", "]">>),
      Resp("ran", 0, <<"x">>),
      Resp("ran", 0, <<"[", BadByte, "]">>),
      Resp("ran", 1, <<>>),
      Resp("ran", 1, <<"[", "pip", "]">>) }

\* the paths that constructions are run with
CtorPaths ==
    { <<"/", "/", "/", "p", "y">>,
      <<"p", "y">>,
      <<"/", "c", "o", "n", "d", "a", "/", ".", "/", "p", "y">> }

Calls ==
    {Call("infer_type", p, cwd, "unknown", NoResp, NoResp) :
        p \in InferPaths, cwd \in Cwds}
    \cup {Call("get_py_version", <<"p", "y">>, <<"/", "w">>, "unknown", ver, NoResp) :
        ver \in VerResps}
    \cup {Call("get_installed_packages", <<"p", "y">>, <<"/", "w">>, "unknown", NoResp, pip) :
        pip \in PipResps}
    \cup {Call("__init__", p, cwd, type_, ver, pip) :
        p \in CtorPaths, cwd \in Cwds, type_ \in {"None", "unknown", "conda"},
        ver \in VerResps, pip \in CtorPipResps}

\* a call of PyEnv is about to be made
EnvInit ==
    /\ pc = "start"
    /\ call \in Calls
    /\ ret = [kind |-> "none"]

\* the call ends with result r
Finish(r) ==
    /\ pc' = "done"
    /\ ret' = r
    /\ UNCHANGED <<call, taskVars>>

CallInferType ==
    /\ pc = "start" /\ call.op = "infer_type"
    /\ Finish(Return(infer_type(call.path, call.cwd)))

CallGetPyVersion ==
    /\ pc = "start" /\ call.op = "get_py_version"
    /\ Finish(get_py_version(call.ver))

CallGetInstalledPackages ==
    /\ pc = "start" /\ call.op = "get_installed_packages"
    /\ Finish(get_installed_packages(call.pip))

CallInit ==
    /\ pc = "start" /\ call.op = "__init__"
    /\ Finish(PyEnv_init(call.path, call.type_, call.cwd, call.ver, call.pip))

EnvNext ==
    \/ CallInferType
    \/ CallGetPyVersion
    \/ CallGetInstalledPackages
    \/ CallInit

EnvSpecInit == TaskInit /\ EnvInit

EnvSpec == EnvSpecInit /\ [][EnvNext]_vars

(***************************************************************************)
(* Properties of the interpreter inspector.                                *)
(***************************************************************************)
\* the call of operation op has ended
Done(op) == pc = "done" /\ call.op = op

\* the path infer_type tests: absolute and normalised
TestedPath == Absolute(call.path, call.cwd)

\* the normalised path of the system interpreter
SystemPath == Absolute(SysPython, call.cwd)

\* C6: kind inference applies its rules in the order venv, pypoetry, conda,
\* system to the absolute path and returns the kind of the first that
\* matches, unknown when none does; a path containing "venv" resolves to
\* venv whatever else it contains, and one containing "pypoetry" but not
\* "venv" resolves to poetry even if it contains "conda".
C6_FirstRuleWins ==
    Done("infer_type")
    => /\ Contains(venv, call.path) => ret.val = "venv"
       /\ Contains(venv, TestedPath) => ret.val = "venv"
       /\ (Contains(pypoetry, TestedPath) /\ ~Contains(venv, TestedPath))
          => ret.val = "poetry"
       /\ (Contains(conda, TestedPath) /\ ~Contains(venv, TestedPath)
                                       /\ ~Contains(pypoetry, TestedPath))
          => ret.val = "conda"
       /\ ret.val \in {"system", "unknown"}
          => /\ ~Contains(venv, TestedPath)
             /\ ~Contains(pypoetry, TestedPath)
             /\ ~Contains(conda, TestedPath)

\* a path that holds all three texts, "venv" last, in a harmless directory
C6_Witness ==
    /\ Done("infer_type")
    /\ call.path = conda \o pypoetry \o venv
    /\ call.cwd = <<"/", "w">>
    /\ ret.val = "venv"

\* C7 as stated: for a path holding none of "venv", "pypoetry", "conda",
\* kind inference returns system exactly when the normalised absolute path
\* equals the normalised path of the system interpreter, and unknown for
\* every other such path.
C7_SystemOnlyOnExactMatch ==
    (Done("infer_type") /\ ~Contains(venv, TestedPath)
                        /\ ~Contains(pypoetry, TestedPath)
                        /\ ~Contains(conda, TestedPath))
    => /\ ret.val = "system" <=> TestedPath = SystemPath
       /\ TestedPath # SystemPath => ret.val = "unknown"

\* C7 as amended: for a normalised absolute path holding none of "venv",
\* "pypoetry", "conda", kind inference returns system exactly when that
\* path contains the normalised path of the system interpreter as a
\* substring (equal to it, extending it or merely containing it), and
\* unknown for every other such path.
C7_SystemOnSubstringMatch ==
    (Done("infer_type") /\ ~Contains(venv, TestedPath)
                        /\ ~Contains(pypoetry, TestedPath)
                        /\ ~Contains(conda, TestedPath))
    => /\ ret.val = "system" <=> Contains(SystemPath, TestedPath)
       /\ ~Contains(SystemPath, TestedPath) => ret.val = "unknown"

\* a path that extends the path of the system interpreter
C7_Witness ==
    /\ Done("infer_type")
    /\ call.path = <<"/", "p", "y", "3">>
    /\ TestedPath # SystemPath
    /\ ret.val = "system"

\* C8: whenever the version process cannot be started or ends with a
\* failure, the version query fails with a runtime error and construction
\* fails with a runtime error; construction never returns a record whose
\* version string is empty.
C8_VersionFailureRaises ==
    /\ (Done("get_py_version") /\ (call.ver.how # "ran" \/ call.ver.rc # 0))
       => (ret.kind = "raise" /\ ret.exc = "RuntimeError")
    /\ (Done("__init__") /\ (call.ver.how # "ran" \/ call.ver.rc # 0))
       => (ret.kind = "raise" /\ ret.exc = "RuntimeError")
    /\ (Done("__init__") /\ ret.kind = "return") => ret.val.pyversion # <<>>

RECURSIVE Dump(_), DumpItems(_, _)
\* the text of a JSON value
Dump(v) ==
    IF v.t = "dict" THEN <<v.name>>
    ELSE <<"[">> \o DumpItems(v.items, 1) \o <<"]">>

DumpItems(items, i) ==
    IF i > Len(items) THEN <<>>
    ELSE IF i = Len(items) THEN Dump(items[i])
    ELSE Dump(items[i]) \o <<",">> \o DumpItems(items, i + 1)

RECURSIVE JsonValuesOfLen(_), JsonItemsOfLen(_)
\* the JSON values whose text has exactly n tokens
JsonValuesOfLen(n) ==
    IF n <= 0 THEN {}
    ELSE IF n = 1 THEN {JDict("pip", "23.0")}
    ELSE {JList(items) : items \in JsonItemsOfLen(n - 2)}

\* the sequences of JSON values whose texts, joined by commas, have
\* exactly n tokens
JsonItemsOfLen(n) ==
    IF n < 0 THEN {}
    ELSE IF n = 0 THEN {<<>>}
    ELSE {<<v>> : v \in JsonValuesOfLen(n)}
         \cup UNION {{<<v>> \o rest : v \in JsonValuesOfLen(k),
                                     rest \in JsonItemsOfLen(n - k - 1) \ {<<>>}} :
                     k \in 1..(n - 2)}

\* the outputs that are valid JSON: the texts of the JSON values
ValidDocs == {Dump(v) : v \in UNION {JsonValuesOfLen(n) : n \in 1..MaxLen}}

\* the output is a JSON array of objects
IsArrayOfObjects(out) ==
    /\ out \in ValidDocs
    /\ out[1] = "["
    /\ \A i \in 2..Len(out) : out[i] # "["

\* C9 as stated: the installed-package query returns the parsed list of
\* {name, version} records when the process ran and printed valid
\* structured output, raises the runtime error of the kind 'process did not
\* run' when the process could not be started, and raises a runtime error of
\* a different kind, 'parse failure', when the process ran and its output
\* is no valid structured data; it returns nothing on either failure.
C9_ThreeOutcomes ==
    Done("get_installed_packages")
    => IF call.pip.how # "ran"
       THEN ret = Raise("RuntimeError", "An error occurred")
       ELSE IF call.pip.out \in ValidDocs
       THEN /\ ret.kind = "return"
            /\ Dump(ret.val) = call.pip.out
       ELSE ret = Raise("RuntimeError", "Failed to parse installed packages")

\* C9 as amended: the installed-package query returns the parsed value
\* (the list of {name, version} records for an array of objects) when the
\* process ran and printed valid JSON; it raises the runtime error of the
\* general kind 'An error occurred' when running the process failed, that
\* is when the process could not be started or its output could not be
\* decoded as text; and it raises a runtime error of a different kind,
\* 'Failed to parse installed packages', when the process ran and its
\* decoded output is no valid JSON.  It returns nothing on either failure.
C9_ThreeOutcomesByText ==
    Done("get_installed_packages")
    => IF call.pip.how # "ran" \/ ~Decodable(call.pip.out)
       THEN ret = Raise("RuntimeError", "An error occurred")
       ELSE IF call.pip.out \in ValidDocs
       THEN /\ ret.kind = "return"
            /\ Dump(ret.val) = call.pip.out
            /\ IsArrayOfObjects(call.pip.out)
               => /\ ret.val.t = "list"
                  /\ \A i \in 1..Len(ret.val.items) :
                        ret.val.items[i] = JDict("pip", "23.0")
       ELSE /\ ret = Raise("RuntimeError", "Failed to parse installed packages")
            /\ ret # Raise("RuntimeError", "An error occurred")

\* the process ran with success and printed bytes that are no text
C9_Witness ==
    /\ Done("get_installed_packages")
    /\ call.pip = Resp("ran", 0, <<"[", BadByte, "]">>)
    /\ ret.kind = "raise"
    /\ ret.msg = "An error occurred"

=============================================================================
